---- MODULE Spec2Model ----
(***************************************************************************)
(* The gRPC transport server of kratos (transport/grpc/server.go):         *)
(* NewServer, Server.Endpoint, Server.Start, Server.Stop and the server's  *)
(* unary interceptor, run by concurrent goroutines.                        *)
(*                                                                         *)
(* Spec      the lifecycle: goroutines call Endpoint, Start and Stop while *)
(*           the grpc server dispatches calls; the clock stands still.     *)
(* ChainSpec calls through the middleware chain of a serving server.       *)
(* TimedSpec calls of a serving server with deadlines, timers, the clock   *)
(*           and cancellation by the client and by the owner of the        *)
(*           context passed to Start.                                      *)
(* MergeSpec the same for calls without a deadline of their own, with the  *)
(*           merge goroutine and the timers scheduled fairly.              *)
(*                                                                         *)
(* Time is counted in ticks of the clock; one tick is one second.          *)
(***************************************************************************)
EXTENDS Integers, Sequences, FiniteSets, TLC

(* ------------------------------ bounds --------------------------------- *)
\* goroutines that call Endpoint, Start and Stop on the one Server
NumThreads == 2
\* total number of Endpoint/Start/Stop invocations in one behaviour
MaxOps == 3

\* calls the grpc server dispatches in one behaviour
NumCalls == 1
\* the clock stops advancing here
MaxTime == 2
\* longest list given with Middleware()
MaxMiddleware == 2
\* longest list given with UnaryInterceptor()
MaxInterceptors == 2
\* most entries filepath.Walk visits in the directory given to the command
MaxFiles == 2

Threads == 1..NumThreads
Calls == 1..NumCalls

(* ----------------------------- values ---------------------------------- *)
NoLis == "nil"
TheLis == "lis"
NoErr == "nil"
\* a nil *url.URL
NoURL == [scheme |-> "", host |-> "", port |-> -1]
NoCtx == "nil"
AppCtx == "ctx"
ErrListen == "listen error"
ErrExtract == "extract error"
ErrServerStopped == "grpc: the server has been stopped"

\* the wildcard host of a bind address such as ":0"
Wildcard == ""
\* the host the resolver substitutes for a wildcard host
RoutableHost == "10.0.0.1"
\* ports the kernel may hand out for port 0
EphemeralPorts == {40001, 40002}
\* the bind addresses given with Address(); the first is NewServer's default
Addresses == {[host |-> Wildcard, port |-> 0], [host |-> "127.0.0.1", port |-> 9000]}

\* a context without a deadline
NoDeadline == -1
\* s.middleware when the Middleware option was not given
NoMiddleware == [set |-> FALSE, m |-> <<>>]
\* timeout: 1 * time.Second, in clock ticks
DefaultTimeout == 1
\* the values given with Timeout()
Timeouts == {0, DefaultTimeout, 2}
\* the lists given with Middleware(): the first n of these names
MiddlewareNames == <<"A", "B", "C", "D">>
MiddlewareLists == {SubSeq(MiddlewareNames, 1, n) : n \in 0..MaxMiddleware}
\* UnaryInterceptor(in...): s.ints = in
InterceptorNames == <<"I1", "I2", "I3", "I4">>
InterceptorLists == {SubSeq(InterceptorNames, 1, n) : n \in 0..MaxInterceptors}
\* Middleware(m...): s.middleware = middleware.Chain(m...)
Middleware(m) == [set |-> TRUE, m |-> m]
\* a call that the grpc server has not dispatched
NoCall ==
    [st |-> "none", ownDone |-> FALSE, ownDeadline |-> NoDeadline, t0 |-> 0,
     merged |-> "none", timer |-> "none", deadline |-> NoDeadline, h |-> <<>>,
     pos |-> 0, dir |-> "down", trace |-> <<>>, res |-> "none",
     cx |-> <<>>, seen |-> <<>>]

(* --------------------- kratos proto client: values --------------------- *)
\* look("protoc-gen-go", "protoc-gen-go-grpc", "protoc-gen-go-http")
Plugins == <<"protoc-gen-go", "protoc-gen-go-grpc", "protoc-gen-go-http">>
\* a path is known by its extension: filepath.Ext, strings.HasSuffix
ProtoFile == [base |-> "helloworld", ext |-> ".proto"]
OtherFile == [base |-> "README", ext |-> ".md"]
Dir == [base |-> "api", ext |-> ""]
\* args of run: none, a proto file, a directory
CliArgs == {<<>>, <<ProtoFile>>, <<Dir>>}
\* the entries filepath.Walk visits
RECURSIVE Trees(_)
Trees(n) ==
    IF n = 0 THEN {<<>>}
    ELSE Trees(n - 1) \cup {Append(q, f) : q \in Trees(n - 1), f \in {ProtoFile, OtherFile}}
\* the command has not been invoked
NoRun ==
    [pc |-> "none", args |-> <<>>, path |-> {}, tree |-> <<>>, i |-> 0, upgrades |-> 0,
     upgradeErr |-> FALSE, step |-> "none", gens |-> 0, w |-> 0, err |-> FALSE,
     out |-> <<>>]

VARIABLES
    address,     \* s.address
    timeout,     \* s.timeout
    middleware,  \* s.middleware
    ints,        \* s.ints
    cli,         \* the kratos proto client command: one invocation of run
    once,        \* s.once: "new", "running" (a caller is inside Do), "done"
    lis,         \* s.lis
    err,         \* s.err
    endpoint,    \* s.endpoint
    ctx,         \* s.ctx
    health,      \* status of s.health
    sock,        \* the listener net.Listen returned: [state, port]
    binds,       \* number of net.Listen calls made
    closes,      \* number of Close calls made on the listener
    gLis,        \* grpc.Server: the Serve calls whose listener is registered
    gStopped,    \* grpc.Server: listeners closed and dropped by GracefulStop
    gDone,       \* grpc.Server: a GracefulStop has finished draining
    pc,          \* position of each goroutine
    op,          \* the method each goroutine is running
    ops,         \* invocations so far
    stopInvoked, \* Stop has been called at least once
    epRets,      \* results returned by Endpoint calls
    startRets,   \* results returned by Start calls
    stopRets,    \* results returned by Stop calls
    appDone,     \* the context passed to Start has been cancelled
    now,         \* the clock
    calls        \* the calls dispatched by the grpc server

vars == <<cli, address, timeout, middleware, ints, appDone, now, calls, once, lis, err,
          endpoint, ctx, health, sock, binds, closes, gLis, gStopped, gDone, pc, op, ops, stopInvoked, epRets, startRets,
          stopRets>>

configVars == <<address, timeout, middleware, ints>>
callVars == <<appDone, now, calls>>
serverVars == <<lis, err, endpoint, ctx, health>>
grpcVars == <<gLis, gStopped, gDone>>
retVars == <<epRets, startRets, stopRets>>
serverState == <<configVars, callVars, once, serverVars, sock, binds, closes, grpcVars,
                 pc, op, ops, stopInvoked, retVars>>

(* --------------------------- pure functions ---------------------------- *)
\* the port of a listener value; a nil listener has none
ListenerPort(l) == IF l = NoLis THEN -1 ELSE sock.port

\* host.Extract(hostPort, lis): the advertisable host:port. The port is the
\* listener's when a listener is given, the configured one otherwise; a
\* wildcard host is replaced by a routable one.
Extract(hostPort, l) ==
    [host |-> IF hostPort.host = Wildcard THEN RoutableHost ELSE hostPort.host,
     port |-> IF l = NoLis THEN hostPort.port ELSE ListenerPort(l)]

\* &url.URL{Scheme: "grpc", Host: addr}
URL(addr) == [scheme |-> "grpc", host |-> addr.host, port |-> addr.port]

\* the listener Endpoint hands to host.Extract
ExtractListener == lis

\* what Endpoint returns after the once gate
EndpointResult ==
    IF err # NoErr THEN [url |-> NoURL, err |-> err]
    ELSE [url |-> endpoint, err |-> NoErr]

\* health.NewServer() of google.golang.org/grpc: the status map starts with
\* the server's own entry "" set to SERVING
HealthNewServer == "SERVING"

(* ------------------------------- Init ---------------------------------- *)
\* a constructor that binds the listener itself
InitBinds ==
    /\ address \in Addresses
    /\ timeout = DefaultTimeout
    /\ middleware \in {NoMiddleware, Middleware(<<"A">>)}
    /\ ints = <<>>
    /\ cli = NoRun
    /\ appDone = FALSE
    /\ now = 0
    /\ calls = [c \in Calls |-> NoCall]
    /\ once = "new"
    /\ lis = NoLis
    /\ err = NoErr
    /\ endpoint = NoURL
    /\ ctx = NoCtx
    /\ health = HealthNewServer
    /\ sock = [state |-> "open", port |-> 9000]
    /\ binds = 1
    /\ closes = 0
    /\ gLis = {}
    /\ gStopped = FALSE
    /\ gDone = FALSE
    /\ pc = [t \in Threads |-> "idle"]
    /\ op = [t \in Threads |-> "none"]
    /\ ops = 0
    /\ stopInvoked = FALSE
    /\ epRets = {}
    /\ startRets = {}
    /\ stopRets = {}

\* NewServer(opts...), with the default timeout and no or one middleware
Init ==
    /\ address \in Addresses
    /\ timeout = DefaultTimeout
    /\ middleware \in {NoMiddleware, Middleware(<<"A">>)}
    /\ ints = <<>>
    /\ cli = NoRun
    /\ appDone = FALSE
    /\ now = 0
    /\ calls = [c \in Calls |-> NoCall]
    /\ once = "new"
    /\ lis = NoLis
    /\ err = NoErr
    /\ endpoint = NoURL
    /\ ctx = NoCtx
    /\ health = HealthNewServer
    /\ sock = [state |-> "none", port |-> 0]
    /\ binds = 0
    /\ closes = 0
    /\ gLis = {}
    /\ gStopped = FALSE
    /\ gDone = FALSE
    /\ pc = [t \in Threads |-> "idle"]
    /\ op = [t \in Threads |-> "none"]
    /\ ops = 0
    /\ stopInvoked = FALSE
    /\ epRets = {}
    /\ startRets = {}
    /\ stopRets = {}

(* ----------------------------- Endpoint -------------------------------- *)
\* a goroutine calls s.Endpoint()
CallEndpoint(t) ==
    /\ pc[t] = "idle"
    /\ ops < MaxOps
    /\ ops' = ops + 1
    /\ op' = [op EXCEPT ![t] = "Endpoint"]
    /\ pc' = [pc EXCEPT ![t] = "once"]
    /\ UNCHANGED <<cli, configVars, callVars, once, serverVars, sock, binds, closes, grpcVars,
                   stopInvoked, retVars>>

\* a gate that does not make a second caller wait for the first
OnceDoNoWait(t) ==
    /\ pc[t] = "once"
    /\ \/ /\ once \in {"new", "running"}
          /\ once' = "running"
          /\ pc' = [pc EXCEPT ![t] = "listen"]
       \/ /\ once = "done"
          /\ once' = once
          /\ pc' = [pc EXCEPT ![t] = "return"]
    /\ UNCHANGED <<cli, configVars, callVars, serverVars, sock, binds, closes, grpcVars, op, ops,
                   stopInvoked, retVars>>

\* s.once.Do(f): the first caller runs f, a caller that arrives while f runs
\* waits for it, a caller that arrives after it skips f
OnceDo(t) ==
    /\ pc[t] = "once"
    /\ \/ /\ once = "new"
          /\ once' = "running"
          /\ pc' = [pc EXCEPT ![t] = "listen"]
       \/ /\ once = "done"
          /\ once' = once
          /\ pc' = [pc EXCEPT ![t] = "return"]
    /\ UNCHANGED <<cli, configVars, callVars, serverVars, sock, binds, closes, grpcVars, op, ops,
                   stopInvoked, retVars>>

\* lis, err := net.Listen(s.network, s.address)
Listen(t) ==
    /\ pc[t] = "listen"
    /\ binds' = binds + 1
    /\ \/ /\ err' = ErrListen
          /\ once' = "done"
          /\ pc' = [pc EXCEPT ![t] = "return"]
          /\ UNCHANGED sock
       \/ /\ \E p \in (IF address.port = 0 THEN EphemeralPorts ELSE {address.port}) :
                sock' = [state |-> "open", port |-> p]
          /\ pc' = [pc EXCEPT ![t] = "extract"]
          /\ UNCHANGED <<err, once>>
    /\ UNCHANGED <<cli, configVars, callVars, lis, endpoint, ctx, health, closes, grpcVars, op, ops,
                   stopInvoked, retVars>>

\* a resolution that leaves the listener open when it fails
ResolveLeaks(t) ==
    /\ pc[t] = "extract"
    /\ \/ /\ err' = ErrExtract
          /\ UNCHANGED <<lis, endpoint>>
       \/ /\ lis' = TheLis
          /\ endpoint' = URL(Extract(address, ExtractListener))
          /\ UNCHANGED err
    /\ once' = "done"
    /\ pc' = [pc EXCEPT ![t] = "return"]
    /\ UNCHANGED <<cli, configVars, callVars, ctx, health, sock, closes, binds, grpcVars, op, ops,
                   stopInvoked, retVars>>

\* addr, err := host.Extract(s.address, s.lis), then either the failure
\* branch (lis.Close, s.err = err) or s.lis = lis, s.endpoint = &url.URL{...}
Resolve(t) ==
    /\ pc[t] = "extract"
    /\ \/ /\ sock' = [sock EXCEPT !.state = "closed"]
          /\ closes' = closes + 1
          /\ err' = ErrExtract
          /\ UNCHANGED <<lis, endpoint>>
       \/ /\ lis' = TheLis
          /\ endpoint' = URL(Extract(address, ExtractListener))
          /\ UNCHANGED <<sock, closes, err>>
    /\ once' = "done"
    /\ pc' = [pc EXCEPT ![t] = "return"]
    /\ UNCHANGED <<cli, configVars, callVars, ctx, health, binds, grpcVars, op, ops, stopInvoked,
                   retVars>>

\* a Start that goes on whatever Endpoint returned
EndpointReturnIgnoresErr(t) ==
    /\ pc[t] = "return"
    /\ \/ /\ op[t] = "Endpoint"
          /\ epRets' = epRets \cup {EndpointResult}
          /\ pc' = [pc EXCEPT ![t] = "idle"]
          /\ op' = [op EXCEPT ![t] = "none"]
          /\ UNCHANGED startRets
       \/ /\ op[t] = "Start"
          /\ pc' = [pc EXCEPT ![t] = "setctx"]
          /\ UNCHANGED <<op, epRets, startRets>>
    /\ UNCHANGED <<cli, configVars, callVars, once, serverVars, sock, binds, closes, grpcVars, ops,
                   stopInvoked, stopRets>>

\* if s.err != nil { return nil, s.err }; return s.endpoint, nil
\* In Start the result decides between return err and going on.
EndpointReturn(t) ==
    /\ pc[t] = "return"
    /\ \/ /\ op[t] = "Endpoint"
          /\ epRets' = epRets \cup {EndpointResult}
          /\ pc' = [pc EXCEPT ![t] = "idle"]
          /\ op' = [op EXCEPT ![t] = "none"]
          /\ UNCHANGED startRets
       \/ /\ op[t] = "Start"
          /\ EndpointResult.err # NoErr
          /\ startRets' = startRets \cup {EndpointResult.err}
          /\ pc' = [pc EXCEPT ![t] = "idle"]
          /\ op' = [op EXCEPT ![t] = "none"]
          /\ UNCHANGED epRets
       \/ /\ op[t] = "Start"
          /\ EndpointResult.err = NoErr
          /\ pc' = [pc EXCEPT ![t] = "setctx"]
          /\ UNCHANGED <<op, epRets, startRets>>
    /\ UNCHANGED <<cli, configVars, callVars, once, serverVars, sock, binds, closes, grpcVars, ops,
                   stopInvoked, stopRets>>

(* ------------------------------- Start --------------------------------- *)
\* a goroutine calls s.Start(ctx); its first statement is s.Endpoint()
CallStart(t) ==
    /\ pc[t] = "idle"
    /\ ops < MaxOps
    /\ ops' = ops + 1
    /\ op' = [op EXCEPT ![t] = "Start"]
    /\ pc' = [pc EXCEPT ![t] = "once"]
    /\ UNCHANGED <<cli, configVars, callVars, once, serverVars, sock, binds, closes, grpcVars,
                   stopInvoked, retVars>>

\* a Start that does not store its context
StartSkipCtx(t) ==
    /\ pc[t] = "setctx"
    /\ pc' = [pc EXCEPT ![t] = "resume"]
    /\ UNCHANGED <<cli, configVars, callVars, once, serverVars, sock, binds, closes,
                   grpcVars, op, ops, stopInvoked, retVars>>

\* s.ctx = ctx
StartSetCtx(t) ==
    /\ pc[t] = "setctx"
    /\ ctx' = AppCtx
    /\ pc' = [pc EXCEPT ![t] = "resume"]
    /\ UNCHANGED <<cli, configVars, callVars, once, lis, err, endpoint, health, sock, binds, closes,
                   grpcVars, op, ops, stopInvoked, retVars>>

\* s.health.Resume()
StartResume(t) ==
    /\ pc[t] = "resume"
    /\ health' = "SERVING"
    /\ pc' = [pc EXCEPT ![t] = "serve"]
    /\ UNCHANGED <<cli, configVars, callVars, once, lis, err, endpoint, ctx, sock, binds, closes,
                   grpcVars, op, ops, stopInvoked, retVars>>

\* return s.Serve(s.lis): a stopped grpc.Server closes the listener and
\* returns ErrServerStopped, otherwise the listener is registered and accepted on
StartServe(t) ==
    /\ pc[t] = "serve"
    /\ \/ /\ gStopped
          /\ sock' = [sock EXCEPT !.state = "closed"]
          /\ closes' = closes + 1
          /\ startRets' = startRets \cup {ErrServerStopped}
          /\ pc' = [pc EXCEPT ![t] = "idle"]
          /\ op' = [op EXCEPT ![t] = "none"]
          /\ UNCHANGED gLis
       \/ /\ ~gStopped
          /\ gLis' = gLis \cup {t}
          /\ pc' = [pc EXCEPT ![t] = "serving"]
          /\ UNCHANGED <<sock, closes, startRets, op>>
    /\ UNCHANGED <<cli, configVars, callVars, once, serverVars, binds, gStopped, gDone, ops,
                   stopInvoked, epRets, stopRets>>

\* Serve returns nil once a GracefulStop has closed its listener and finished
ServeReturn(t) ==
    /\ pc[t] = "serving"
    /\ gStopped
    /\ gDone
    /\ startRets' = startRets \cup {NoErr}
    /\ pc' = [pc EXCEPT ![t] = "idle"]
    /\ op' = [op EXCEPT ![t] = "none"]
    /\ UNCHANGED <<cli, configVars, callVars, once, serverVars, sock, binds, closes, grpcVars, ops,
                   stopInvoked, epRets, stopRets>>

(* -------------------------------- Stop --------------------------------- *)
\* a goroutine calls s.Stop(ctx)
CallStop(t) ==
    /\ pc[t] = "idle"
    /\ ops < MaxOps
    /\ ops' = ops + 1
    /\ op' = [op EXCEPT ![t] = "Stop"]
    /\ pc' = [pc EXCEPT ![t] = "graceful"]
    /\ stopInvoked' = TRUE
    /\ UNCHANGED <<cli, configVars, callVars, once, serverVars, sock, binds, closes, grpcVars,
                   retVars>>

\* a Stop that closes the listener it finds in the Server, registered or not
StopGracefulClosesAgain(t) ==
    /\ pc[t] = "graceful"
    /\ closes' = IF sock.state = "none" THEN closes ELSE closes + 1
    /\ sock' = IF sock.state = "none" THEN sock ELSE [sock EXCEPT !.state = "closed"]
    /\ gLis' = {}
    /\ gStopped' = TRUE
    /\ pc' = [pc EXCEPT ![t] = IF gDone THEN "shutdown" ELSE "drain"]
    /\ UNCHANGED <<cli, configVars, callVars, once, serverVars, binds, gDone, op, ops, stopInvoked,
                   retVars>>

\* s.GracefulStop(), first half: nothing to do on a server already stopped,
\* otherwise close every registered listener and drop them
StopGraceful(t) ==
    /\ pc[t] = "graceful"
    /\ \/ /\ gDone
          /\ pc' = [pc EXCEPT ![t] = "shutdown"]
          /\ UNCHANGED <<sock, closes, gLis, gStopped>>
       \/ /\ ~gDone
          /\ closes' = closes + Cardinality(gLis)
          /\ sock' = IF gLis # {} THEN [sock EXCEPT !.state = "closed"] ELSE sock
          /\ gLis' = {}
          /\ gStopped' = TRUE
          /\ pc' = [pc EXCEPT ![t] = "drain"]
    /\ UNCHANGED <<cli, configVars, callVars, once, serverVars, binds, gDone, op, ops, stopInvoked,
                   retVars>>

\* s.GracefulStop(), second half: wait until no call is in flight
StopDrain(t) ==
    /\ pc[t] = "drain"
    /\ \A c \in Calls : calls[c].st # "running"
    /\ gDone' = TRUE
    /\ pc' = [pc EXCEPT ![t] = "shutdown"]
    /\ UNCHANGED <<cli, configVars, callVars, once, serverVars, sock, binds, closes, gLis, gStopped,
                   op, ops, stopInvoked, retVars>>

\* s.health.Shutdown(); return nil
StopShutdown(t) ==
    /\ pc[t] = "shutdown"
    /\ health' = "NOT_SERVING"
    /\ stopRets' = stopRets \cup {NoErr}
    /\ pc' = [pc EXCEPT ![t] = "idle"]
    /\ op' = [op EXCEPT ![t] = "none"]
    /\ UNCHANGED <<cli, configVars, callVars, once, lis, err, endpoint, ctx, sock, binds, closes,
                   grpcVars, ops, stopInvoked, epRets, startRets>>

(* ------------------------- contexts and chain -------------------------- *)
\* the earlier of two deadlines, NoDeadline being the latest
MinDeadline(a, b) ==
    IF a = NoDeadline THEN b
    ELSE IF b = NoDeadline THEN a
    ELSE IF a < b THEN a ELSE b

\* Deadline() of ic.Merge(ctx, s.ctx): the earlier of the parents' deadlines;
\* the context passed to Start carries none
MergeDeadline(ownDeadline) == MinDeadline(ownDeadline, NoDeadline)

\* ic.Merge(parent1, parent2): the merged context is done once a parent is
Merge(parent1Done, parent2Done) == parent1Done \/ parent2Done

\* the context stored in s.ctx is done
ServerCtxDone == ctx = AppCtx /\ appDone

\* a merge of the call's context with itself
MergeOwnOnly(ownDone) == Merge(ownDone, ownDone)

\* ctx, cancel := ic.Merge(ctx, s.ctx): the parents are the call's incoming
\* context and the context stored by Start
MergeParentDone(ownDone) == Merge(ownDone, ServerCtxDone)

\* context.WithTimeout(parent, d): the deadline is the earlier of the
\* parent's and now + d
WithTimeout(parentDeadline, d) == MinDeadline(parentDeadline, now + d)

\* a timeout that replaces the deadline the call came with
CallDeadlineOverride(ownDeadline) ==
    IF timeout > 0 THEN now + timeout ELSE MergeDeadline(ownDeadline)

\* the deadline of the context the interceptor hands to h:
\* if s.timeout > 0 { ctx, cancel = context.WithTimeout(ctx, s.timeout) }
CallDeadline(ownDeadline) ==
    IF timeout > 0 THEN WithTimeout(MergeDeadline(ownDeadline), timeout)
    ELSE MergeDeadline(ownDeadline)

\* WithTimeout arms a timer only when its own deadline is the earlier one
TimerArmed(ownDeadline) ==
    /\ timeout > 0
    /\ \/ MergeDeadline(ownDeadline) = NoDeadline
       \/ now + timeout < MergeDeadline(ownDeadline)

\* middleware.Chain(m...)(next): for i := len(m)-1; i >= 0; i-- { next = m[i](next) }
\* A handler is the sequence of its layers, outermost first.
RECURSIVE ChainFrom(_, _, _)
ChainFrom(m, i, next) ==
    IF i = 0 THEN next ELSE ChainFrom(m, i - 1, <<m[i]>> \o next)

Chain(m, next) == ChainFrom(m, Len(m), next)

\* h := func(ctx, req) { return handler(ctx, req) }, where handler is the
\* rest of grpc.ChainUnaryInterceptor(ints...): s.ints, then the grpc handler
Terminal == ints \o <<"handler">>

\* an interceptor that calls the handler without the chain
HandlerOnly == Terminal

\* if s.middleware != nil { h = s.middleware(h) }
ComposedHandler ==
    IF middleware.set THEN Chain(middleware.m, Terminal) ELSE Terminal

\* a context built with the timeout before the server information
InterceptorContextTimeoutFirst ==
    <<"merge", "transport">>
        \o (IF timeout > 0 THEN <<"timeout">> ELSE <<>>) \o <<"info">>

\* the values and bounds the interceptor puts on the context of a call, in
\* the order it derives them: ic.Merge, transport.NewContext,
\* NewServerContext(ServerInfo), context.WithTimeout
InterceptorContext ==
    <<"merge", "transport", "info">>
        \o (IF timeout > 0 THEN <<"timeout">> ELSE <<>>)

\* the context handed to h is done
CtxDone(c) == calls[c].merged = "done" \/ calls[c].timer = "fired"

(* ---------------------------- interceptor ------------------------------ *)
\* the grpc server dispatches a call to the interceptor, which runs up to
\* h(ctx, req): ic.Merge, the two context values, WithTimeout, the chain
Intercept(c, own) ==
    /\ calls[c].st = "none"
    /\ gLis # {}
    /\ calls' = [calls EXCEPT ![c] =
            [st |-> "running", ownDone |-> FALSE, ownDeadline |-> own, t0 |-> now,
             merged |-> IF MergeParentDone(FALSE) THEN "done" ELSE "live",
             timer |-> IF TimerArmed(own) THEN "armed" ELSE "none",
             deadline |-> CallDeadline(own),
             h |-> ComposedHandler, pos |-> 1, dir |-> "down", trace |-> <<>>,
             res |-> "none", cx |-> InterceptorContext, seen |-> <<>>]]
    /\ UNCHANGED <<cli, configVars, appDone, now, once, serverVars, sock, binds, closes,
                   grpcVars, pc, op, ops, stopInvoked, retVars>>

\* a handler whose error shuts the health service down
LayerEnterShutsDown(c) ==
    LET k == calls[c] IN
    /\ k.st = "running"
    /\ k.dir = "down"
    /\ \/ /\ k.pos < Len(k.h)
          /\ calls' = [calls EXCEPT ![c].trace = Append(@, <<"pre", k.h[k.pos]>>),
                                    ![c].pos = k.pos + 1]
          /\ UNCHANGED health
       \/ /\ k.pos = Len(k.h)
          /\ calls' = [calls EXCEPT ![c].trace = Append(@, <<"run", k.h[k.pos]>>),
                                    ![c].dir = "up",
                                    ![c].pos = k.pos - 1,
                                    ![c].res = "error"]
          /\ health' = "NOT_SERVING"
    /\ UNCHANGED <<cli, configVars, appDone, now, once, lis, err, endpoint, ctx, sock, binds,
                   closes, grpcVars, pc, op, ops, stopInvoked, retVars>>

\* control enters layer pos of h: a middleware sees the request and either
\* calls the handler it wraps or returns without calling it; the terminal
\* handler runs the grpc handler
LayerEnter(c) ==
    LET k == calls[c] IN
    /\ k.st = "running"
    /\ k.dir = "down"
    /\ \/ /\ k.pos < Len(k.h)
          /\ \/ calls' = [calls EXCEPT ![c].trace = Append(@, <<"pre", k.h[k.pos]>>),
                                       ![c].seen = Append(@, <<k.h[k.pos], k.cx>>),
                                       ![c].pos = k.pos + 1]
             \/ calls' = [calls EXCEPT ![c].trace = Append(@, <<"pre", k.h[k.pos]>>),
                                       ![c].seen = Append(@, <<k.h[k.pos], k.cx>>),
                                       ![c].dir = "up",
                                       ![c].res = "rejected"]
       \/ /\ k.pos = Len(k.h)
          /\ \E r \in {"ok", "error"} :
                calls' = [calls EXCEPT ![c].trace = Append(@, <<"run", k.h[k.pos]>>),
                                       ![c].seen = Append(@, <<k.h[k.pos], k.cx>>),
                                       ![c].dir = "up",
                                       ![c].pos = k.pos - 1,
                                       ![c].res = r]
    /\ UNCHANGED <<cli, configVars, appDone, now, once, serverVars, sock, binds, closes,
                   grpcVars, pc, op, ops, stopInvoked, retVars>>

\* layer pos of h returns to the layer around it
LayerReturn(c) ==
    LET k == calls[c] IN
    /\ k.st = "running"
    /\ k.dir = "up"
    /\ k.pos >= 1
    /\ calls' = [calls EXCEPT ![c].trace = Append(@, <<"post", k.h[k.pos]>>),
                              ![c].pos = k.pos - 1]
    /\ UNCHANGED <<cli, configVars, appDone, now, once, serverVars, sock, binds, closes,
                   grpcVars, pc, op, ops, stopInvoked, retVars>>

\* return h(ctx, req), then the deferred cancel of WithTimeout and of ic.Merge
InterceptReturn(c) ==
    LET k == calls[c] IN
    /\ k.st = "running"
    /\ k.dir = "up"
    /\ k.pos = 0
    /\ calls' = [calls EXCEPT ![c] =
            [NoCall EXCEPT !.st = "finished",
                           !.timer = IF k.timer = "none" THEN "none" ELSE "released",
                           !.merged = "released",
                           !.h = k.h, !.trace = k.trace, !.res = k.res]]
    /\ UNCHANGED <<cli, configVars, appDone, now, once, serverVars, sock, binds, closes,
                   grpcVars, pc, op, ops, stopInvoked, retVars>>

\* layer pos of h panics instead of returning: a middleware or the handler
LayerPanic(c) ==
    LET k == calls[c] IN
    /\ k.st = "running"
    /\ k.dir = "down"
    /\ calls' = [calls EXCEPT ![c].trace = Append(@, <<"panic", k.h[k.pos]>>),
                              ![c].dir = "panic",
                              ![c].pos = k.pos - 1,
                              ![c].res = "panic"]
    /\ UNCHANGED <<cli, configVars, appDone, now, once, serverVars, sock, binds, closes,
                   grpcVars, pc, op, ops, stopInvoked, retVars>>

\* the panic reaches the middleware at pos: it recovers and returns an error,
\* or it lets the panic pass to the layer around it
PanicUnwind(c) ==
    LET k == calls[c] IN
    /\ k.st = "running"
    /\ k.dir = "panic"
    /\ k.pos >= 1
    /\ \/ calls' = [calls EXCEPT ![c].trace = Append(@, <<"recover", k.h[k.pos]>>),
                                 ![c].dir = "up",
                                 ![c].res = "recovered"]
       \/ calls' = [calls EXCEPT ![c].pos = k.pos - 1]
    /\ UNCHANGED <<cli, configVars, appDone, now, once, serverVars, sock, binds, closes,
                   grpcVars, pc, op, ops, stopInvoked, retVars>>

\* a panic that unwinds through the interceptor and skips the deferred calls
InterceptUnwindLeaks(c) ==
    LET k == calls[c] IN
    /\ k.st = "running"
    /\ k.dir = "panic"
    /\ k.pos = 0
    /\ calls' = [calls EXCEPT ![c] =
            [NoCall EXCEPT !.st = "finished", !.timer = k.timer, !.merged = k.merged,
                           !.h = k.h, !.trace = k.trace, !.res = k.res]]
    /\ UNCHANGED <<cli, configVars, appDone, now, once, serverVars, sock, binds, closes,
                   grpcVars, pc, op, ops, stopInvoked, retVars>>

\* the panic unwinds through the interceptor: the deferred cancel of
\* WithTimeout and the deferred cancel of ic.Merge run, the panic goes on to
\* the grpc server
InterceptUnwind(c) ==
    LET k == calls[c] IN
    /\ k.st = "running"
    /\ k.dir = "panic"
    /\ k.pos = 0
    /\ calls' = [calls EXCEPT ![c] =
            [NoCall EXCEPT !.st = "finished",
                           !.timer = IF k.timer = "none" THEN "none" ELSE "released",
                           !.merged = "released",
                           !.h = k.h, !.trace = k.trace, !.res = k.res]]
    /\ UNCHANGED <<cli, configVars, appDone, now, once, serverVars, sock, binds, closes,
                   grpcVars, pc, op, ops, stopInvoked, retVars>>

\* the goroutine of ic.Merge sees a parent done and finishes the merged context
MergeWait(c) ==
    LET k == calls[c] IN
    /\ k.st = "running"
    /\ k.merged = "live"
    /\ MergeParentDone(k.ownDone)
    /\ calls' = [calls EXCEPT ![c].merged = "done"]
    /\ UNCHANGED <<cli, configVars, appDone, now, once, serverVars, sock, binds, closes,
                   grpcVars, pc, op, ops, stopInvoked, retVars>>

\* the timer of context.WithTimeout fires
TimerFire(c) ==
    LET k == calls[c] IN
    /\ k.st = "running"
    /\ k.timer = "armed"
    /\ now >= k.deadline
    /\ calls' = [calls EXCEPT ![c].timer = "fired"]
    /\ UNCHANGED <<cli, configVars, appDone, now, once, serverVars, sock, binds, closes,
                   grpcVars, pc, op, ops, stopInvoked, retVars>>

\* the call's incoming context is cancelled, by the client or at its deadline
CancelOwn(c) ==
    LET k == calls[c] IN
    /\ k.st = "running"
    /\ ~k.ownDone
    /\ calls' = [calls EXCEPT ![c].ownDone = TRUE]
    /\ UNCHANGED <<cli, configVars, appDone, now, once, serverVars, sock, binds, closes,
                   grpcVars, pc, op, ops, stopInvoked, retVars>>

\* the owner of the context passed to Start cancels it
CancelApp ==
    /\ ~appDone
    /\ ctx # NoCtx
    /\ appDone' = TRUE
    /\ UNCHANGED <<cli, configVars, now, calls, once, serverVars, sock, binds, closes,
                   grpcVars, pc, op, ops, stopInvoked, retVars>>

\* a timer, a deadline or a wake-up of the merge goroutine is due
Due(c) ==
    LET k == calls[c] IN
    /\ k.st = "running"
    /\ \/ k.timer = "armed" /\ now >= k.deadline
       \/ ~k.ownDone /\ k.ownDeadline # NoDeadline /\ now >= k.ownDeadline
       \/ k.merged = "live" /\ MergeParentDone(k.ownDone)

\* time passes, once everything that is due has happened
Tick ==
    /\ now < MaxTime
    /\ \E c \in DOMAIN calls : calls[c].st = "running"
    /\ \A c \in DOMAIN calls : ~Due(c)
    /\ now' = now + 1
    /\ UNCHANGED <<cli, configVars, appDone, calls, once, serverVars, sock, binds, closes,
                   grpcVars, pc, op, ops, stopInvoked, retVars>>

(* ------------------------------- Next ---------------------------------- *)
ServerStep ==
    \E t \in Threads :
        \/ CallEndpoint(t)
        \/ OnceDo(t)
        \/ Listen(t)
        \/ Resolve(t)
        \/ EndpointReturn(t)
        \/ CallStart(t)
        \/ StartSetCtx(t)
        \/ StartResume(t)
        \/ StartServe(t)
        \/ ServeReturn(t)
        \/ CallStop(t)
        \/ StopGraceful(t)
        \/ StopDrain(t)
        \/ StopShutdown(t)

\* the steps of a call while the clock stands still and the client keeps
\* its context
CallStep ==
    \E c \in Calls :
        \/ Intercept(c, NoDeadline)
        \/ LayerEnter(c)
        \/ LayerReturn(c)
        \/ InterceptReturn(c)
        \/ MergeWait(c)

\* the lifecycle: goroutines calling Endpoint, Start and Stop while the grpc
\* server dispatches calls
Next == ServerStep \/ CallStep \/ CancelApp

Spec == Init /\ [][Next]_vars

(* --------------------- calls on a serving server ----------------------- *)
\* NewServer with one of the given options, then Start by goroutine 1 up to
\* Serve: the listener is bound, resolved and registered with the grpc server
ServingWith(timeouts, middlewares, cs) ==
    /\ cli = NoRun
    /\ address \in Addresses
    /\ timeout \in timeouts
    /\ middleware \in middlewares
    /\ appDone = FALSE
    /\ now = 0
    /\ calls = [c \in cs |-> NoCall]
    /\ once = "done"
    /\ lis = TheLis
    /\ err = NoErr
    /\ sock = [state |-> "open",
               port |-> IF address.port = 0 THEN 40001 ELSE address.port]
    /\ endpoint = URL(Extract(address, NoLis))
    /\ ctx = AppCtx
    /\ health = "SERVING"
    /\ binds = 1
    /\ closes = 0
    /\ gLis = {1}
    /\ gStopped = FALSE
    /\ gDone = FALSE
    /\ pc = [t \in Threads |-> IF t = 1 THEN "serving" ELSE "idle"]
    /\ op = [t \in Threads |-> IF t = 1 THEN "Start" ELSE "none"]
    /\ ops = 1
    /\ stopInvoked = FALSE
    /\ epRets = {}
    /\ startRets = {}
    /\ stopRets = {}

Serving(timeouts, middlewares) ==
    ServingWith(timeouts, middlewares, Calls) /\ ints = <<>>

\* a serving server with any middleware list
InitChain ==
    Serving(Timeouts, {NoMiddleware} \cup {Middleware(m) : m \in MiddlewareLists})

\* the passage of a call through the interceptor and the chain
ChainStep ==
    \E c \in Calls :
        \/ Intercept(c, NoDeadline)
        \/ LayerEnter(c)
        \/ LayerReturn(c)
        \/ InterceptReturn(c)

ChainSpec == InitChain /\ [][ChainStep]_vars

\* a serving server with any middleware list and any list of interceptors
InitPipeline ==
    /\ ServingWith(Timeouts, {NoMiddleware} \cup {Middleware(m) : m \in MiddlewareLists},
                   Calls)
    /\ ints \in InterceptorLists

PipelineSpec == InitPipeline /\ [][ChainStep]_vars

\* one call more than the other specifications dispatch, so that a call
\* always has a neighbour in flight
FrameCalls == 1..(NumCalls + 1)

\* a serving server with the default timeout and one middleware
InitFrame ==
    ServingWith({DefaultTimeout}, {Middleware(<<"A">>)}, FrameCalls) /\ ints = <<>>

\* the calls, their timers, the clock and the owner of the Start context
NextFrame ==
    \/ \E c \in FrameCalls :
            \/ Intercept(c, NoDeadline)
            \/ LayerEnter(c)
            \/ LayerReturn(c)
            \/ InterceptReturn(c)
            \/ MergeWait(c)
            \/ TimerFire(c)
    \/ CancelApp
    \/ Tick

FrameSpec == InitFrame /\ [][NextFrame]_vars

\* a serving server without or with the default timeout and one middleware
InitResource ==
    ServingWith({0, DefaultTimeout}, {Middleware(<<"A">>)}, FrameCalls) /\ ints = <<>>

\* calls that return, fail, are rejected or panic, their timers and the clock
NextResource ==
    \/ \E c \in FrameCalls :
            \/ Intercept(c, NoDeadline)
            \/ LayerEnter(c)
            \/ LayerReturn(c)
            \/ InterceptReturn(c)
            \/ LayerPanic(c)
            \/ PanicUnwind(c)
            \/ InterceptUnwind(c)
            \/ TimerFire(c)
    \/ Tick

ResourceSpec == InitResource /\ [][NextResource]_vars

\* a serving server with any timeout and no or one middleware
InitTimed == Serving(Timeouts, {NoMiddleware, Middleware(<<"A">>)})

\* the steps of a call, its client, its timers and the clock
TimedCallStep ==
    \E c \in Calls :
        \/ \E own \in {NoDeadline, now + 1, now + 2} : Intercept(c, own)
        \/ LayerEnter(c)
        \/ LayerReturn(c)
        \/ InterceptReturn(c)
        \/ MergeWait(c)
        \/ TimerFire(c)
        \/ CancelOwn(c)

NextTimed == TimedCallStep \/ CancelApp \/ Tick

TimedSpec == InitTimed /\ [][NextTimed]_vars

\* a serving server with any timeout and one middleware
InitMerge == Serving(Timeouts, {Middleware(<<"A">>)})

\* the steps of a call that comes without a deadline, its client, its
\* timer and the clock
MergeCallStep ==
    \E c \in Calls :
        \/ Intercept(c, NoDeadline)
        \/ LayerEnter(c)
        \/ LayerReturn(c)
        \/ InterceptReturn(c)
        \/ MergeWait(c)
        \/ TimerFire(c)
        \/ CancelOwn(c)

NextMerge == MergeCallStep \/ CancelApp \/ Tick

\* the Go scheduler runs the goroutine of ic.Merge and the runtime timers
MergeSpec ==
    /\ InitMerge
    /\ [][NextMerge]_vars
    /\ \A c \in Calls : WF_vars(MergeWait(c)) /\ WF_vars(TimerFire(c))

(* ------------------------ kratos proto client -------------------------- *)
\* run: if len(args) == 0 { fmt.Println("Please enter ..."); return }, else
\* proto = strings.TrimSpace(args[0]) and look(...) is called
CliRun ==
    /\ cli.pc = "run"
    /\ IF Len(cli.args) = 0
         THEN cli' = [cli EXCEPT !.out = Append(@, "usage"), !.pc = "done"]
         ELSE cli' = [cli EXCEPT !.i = 1, !.pc = "look"]
    /\ UNCHANGED serverState

\* look: exec.LookPath(n) for the next name; the first name that is missing
\* returns the error, the end of the list returns nil
CliLook ==
    /\ cli.pc = "look"
    /\ IF cli.i > Len(Plugins)
         THEN cli' = [cli EXCEPT !.pc = "dispatch"]
         ELSE IF Plugins[cli.i] \in cli.path
                THEN cli' = [cli EXCEPT !.i = cli.i + 1]
                ELSE cli' = [cli EXCEPT !.pc = "upgrade"]
    /\ UNCHANGED serverState

\* an upgrade whose failure is ignored
CliUpgradeIgnoresErr ==
    /\ cli.pc = "upgrade"
    /\ \E ok \in BOOLEAN :
            cli' = [cli EXCEPT !.upgrades = @ + 1, !.upgradeErr = ~ok, !.pc = "dispatch"]
    /\ UNCHANGED serverState

\* exec.Command("kratos", "upgrade").Run(): on an error print it and return
CliUpgrade ==
    /\ cli.pc = "upgrade"
    /\ \/ cli' = [cli EXCEPT !.upgrades = @ + 1, !.pc = "dispatch"]
       \/ cli' = [cli EXCEPT !.upgrades = @ + 1, !.upgradeErr = TRUE,
                             !.out = Append(@, "error"), !.pc = "done"]
    /\ UNCHANGED serverState

\* if strings.HasSuffix(proto, ".proto") { generate } else { walk }
CliDispatch ==
    /\ cli.pc = "dispatch"
    /\ IF cli.args[1].ext = ".proto"
         THEN cli' = [cli EXCEPT !.step = "generate", !.pc = "generate"]
         ELSE cli' = [cli EXCEPT !.step = "walk", !.w = 1, !.pc = "walk"]
    /\ UNCHANGED serverState

\* walk: filepath.Walk visits the next entry; one that is no .proto file is
\* passed over, a .proto file is generated
CliWalk ==
    /\ cli.pc = "walk"
    /\ IF cli.w > Len(cli.tree)
         THEN cli' = [cli EXCEPT !.pc = "report"]
         ELSE IF cli.tree[cli.w].ext # ".proto"
                THEN cli' = [cli EXCEPT !.w = cli.w + 1]
                ELSE cli' = [cli EXCEPT !.pc = "generate"]
    /\ UNCHANGED serverState

\* generate: protoc runs and fails or succeeds; an error ends a walk
CliGenerate ==
    /\ cli.pc = "generate"
    /\ \/ cli' = [cli EXCEPT !.gens = @ + 1, !.err = TRUE, !.pc = "report"]
       \/ cli' = [cli EXCEPT !.gens = @ + 1, !.out = Append(@, "proto"),
                             !.w = IF cli.step = "walk" THEN cli.w + 1 ELSE cli.w,
                             !.pc = IF cli.step = "walk" THEN "walk" ELSE "report"]
    /\ UNCHANGED serverState

\* if err != nil { fmt.Println(err) }
CliReport ==
    /\ cli.pc = "report"
    /\ cli' = [cli EXCEPT !.out = IF cli.err THEN Append(@, "error") ELSE @,
                          !.pc = "done"]
    /\ UNCHANGED serverState

\* one invocation of the command, with any arguments, any plugins on the
\* PATH and any directory content; the Server of the other package is not
\* started
InitCli ==
    /\ \E a \in CliArgs, f \in SUBSET {Plugins[n] : n \in 1..Len(Plugins)} :
         \E d \in (IF a = <<Dir>> THEN Trees(MaxFiles) ELSE {<<>>}) :
            cli = [NoRun EXCEPT !.pc = "run", !.args = a, !.path = f, !.tree = d]
    /\ address = [host |-> Wildcard, port |-> 0]
    /\ timeout = DefaultTimeout
    /\ middleware = NoMiddleware
    /\ ints = <<>>
    /\ appDone = FALSE
    /\ now = 0
    /\ calls = [c \in Calls |-> NoCall]
    /\ once = "new"
    /\ lis = NoLis
    /\ err = NoErr
    /\ endpoint = NoURL
    /\ ctx = NoCtx
    /\ health = HealthNewServer
    /\ sock = [state |-> "none", port |-> 0]
    /\ binds = 0
    /\ closes = 0
    /\ gLis = {}
    /\ gStopped = FALSE
    /\ gDone = FALSE
    /\ pc = [t \in Threads |-> "idle"]
    /\ op = [t \in Threads |-> "none"]
    /\ ops = 0
    /\ stopInvoked = FALSE
    /\ epRets = {}
    /\ startRets = {}
    /\ stopRets = {}

NextCli ==
    \/ CliRun
    \/ CliLook
    \/ CliUpgrade
    \/ CliDispatch
    \/ CliWalk
    \/ CliGenerate
    \/ CliReport

CliSpec == InitCli /\ [][NextCli]_vars

(* ------------------------------ claims --------------------------------- *)
\* C1: however many Endpoint calls are made, alone or through Start, at once
\* or in turn, net.Listen runs at most once, a caller gets past the gate only
\* when that one attempt has finished, and every result returned is the one
\* cached result: the same URL or the same error.
C1_EndpointOnce ==
    /\ binds <= 1
    /\ \A t \in Threads : pc[t] = "return" => once = "done"
    /\ \A r \in epRets : once = "done" /\ r = EndpointResult
    /\ \A e \in startRets \cap {ErrListen, ErrExtract} : e = err

\* a second Endpoint call is about to return after a first one has returned
C1_Witness ==
    /\ epRets # {}
    /\ binds = 1
    /\ \E t \in Threads : op[t] = "Endpoint" /\ pc[t] = "return"

\* C2: the health status is SERVING only once a Start has bound the
\* listener, which is still open: not-serving from construction on.
C2_ServingOnlyAfterBind ==
    health = "SERVING" => (lis = TheLis /\ sock.state = "open")

\* C3: when the drain of Stop begins, and so when Stop has closed the
\* listener, the health status has already been flipped to not-serving.
C3_ShutdownBeforeDrain ==
    \A t \in Threads :
        (op[t] = "Stop" /\ pc[t] = "drain") => health = "NOT_SERVING"

\* C4: once Stop has been invoked, no step puts the health status back to
\* SERVING.
C4_NoServingAfterStop ==
    [][stopInvoked => ~(health # "SERVING" /\ health' = "SERVING")]_vars

\* a step of a goroutine that is running Stop
StopStep == \E t \in Threads : op[t] = "Stop" /\ pc'[t] # pc[t]

C6_FailedStart ==
    err # NoErr =>
        /\ ctx = NoCtx
        /\ lis = NoLis
        /\ gLis = {}
        /\ \A t \in Threads : pc[t] \notin {"setctx", "resume", "serve", "serving"}
        /\ startRets \subseteq {err}

\* after a Start has failed, a later Start is about to fail the same way
C6_Witness ==
    /\ err # NoErr
    /\ startRets = {err}
    /\ \E t \in Threads : op[t] = "Start" /\ pc[t] = "return"

\* C7: with the bind address ":0", the URL of Endpoint has the scheme "grpc"
\* and the non-zero port the listener was bound to, and every Endpoint call
\* returns that URL.
C7_EphemeralPort ==
    (address = [host |-> Wildcard, port |-> 0] /\ endpoint # NoURL) =>
        /\ endpoint.scheme = "grpc"
        /\ endpoint.port # 0
        /\ endpoint.port = sock.port
        /\ \A r \in epRets : r.url = endpoint

\* the list given with Middleware(), empty when the option was not given
Registered == IF middleware.set THEN middleware.m ELSE <<>>

\* the events of a call that went k middlewares deep: each of the first k
\* sees the request in registration order, the terminal handler runs if
\* ran, and the k middlewares return in the opposite order
Onion(m, k, ran) ==
    [i \in 1..k |-> <<"pre", m[i]>>]
        \o (IF ran THEN <<(<<"run", "handler">>)>> ELSE <<>>)
        \o [i \in 1..k |-> <<"post", m[k + 1 - i]>>]

IsPrefix(a, b) == Len(a) <= Len(b) /\ a = SubSeq(b, 1, Len(a))

\* C8: the events of every call are an onion over the registered list: the
\* first registered middleware sees the request first and returns last, the
\* terminal handler runs innermost and only when every middleware called on,
\* and a middleware that does not call on keeps all later ones and the
\* handler from running; with no middleware the handler is the terminal one.
C8_OnionOrder ==
    \A c \in Calls :
        LET k == calls[c] IN
        k.st # "none" =>
            /\ Registered = <<>> => k.h = Terminal
            /\ \E d \in 0..Len(Registered) : \E ran \in BOOLEAN :
                /\ ran => d = Len(Registered)
                /\ IsPrefix(k.trace, Onion(Registered, d, ran))
                /\ k.st = "finished" =>
                    /\ k.trace = Onion(Registered, d, ran)
                    /\ ran <=> k.res \in {"ok", "error"}
                    /\ ~ran <=> k.res = "rejected"

\* a call through [A, B, ...] has finished after A returned without calling B
C8_Witness ==
    \E c \in Calls :
        /\ Len(Registered) >= 2
        /\ calls[c].st = "finished"
        /\ calls[c].trace = <<(<<"pre", "A">>), (<<"post", "A">>)>>

\* a call through [A, B] has finished after the handler ran
C8_WitnessFull ==
    \E c \in Calls :
        /\ Registered = <<"A", "B">>
        /\ calls[c].st = "finished"
        /\ calls[c].res = "ok"
        /\ Len(calls[c].trace) = 5

\* the call is inside the interceptor
Running(c) == calls[c].st = "running"

\* C9: the context of a running call is done only if the context passed to
\* Start or the call's own context is done or the timeout has expired, and
\* once one of the two parents is done the call's context becomes done,
\* wherever the call is, unless the call returns first.
C9_MergedCancel ==
    /\ [](\A c \in Calls :
            (Running(c) /\ CtxDone(c)) =>
                \/ appDone
                \/ calls[c].ownDone
                \/ (timeout > 0 /\ now >= calls[c].t0 + timeout))
    /\ \A c \in Calls :
            (Running(c) /\ (appDone \/ calls[c].ownDone))
                ~> (CtxDone(c) \/ ~Running(c))

\* a call suspended inside the handler chain whose context is done because
\* the context passed to Start was cancelled
C9_Witness ==
    \E c \in Calls :
        /\ Running(c)
        /\ calls[c].dir = "down"
        /\ appDone
        /\ ~calls[c].ownDone
        /\ calls[c].merged = "done"
        /\ calls[c].timer # "fired"

\* the deadline the claim gives a call: the earlier of its own and dispatch
\* time + T when T > 0, its own when T = 0
EffectiveDeadline(c) ==
    LET own == calls[c].ownDeadline
        byTimeout == calls[c].t0 + timeout
    IN  IF timeout = 0 THEN own
        ELSE IF own = NoDeadline THEN byTimeout
        ELSE IF own < byTimeout THEN own ELSE byTimeout

\* C10: the context of a running call carries the effective deadline and is
\* done whenever the clock is past it; with T = 0 no timer is added.
C10_TimeoutComposition ==
    \A c \in Calls :
        Running(c) =>
            /\ calls[c].deadline = EffectiveDeadline(c)
            /\ (EffectiveDeadline(c) # NoDeadline /\ now > EffectiveDeadline(c))
                    => CtxDone(c)
            /\ (calls[c].timer = "fired") => now >= EffectiveDeadline(c)
            /\ timeout = 0 => calls[c].timer = "none"

\* a running call whose own deadline is earlier than dispatch + T, past it
C10_Witness ==
    \E c \in Calls :
        /\ Running(c)
        /\ timeout > 0
        /\ calls[c].ownDeadline # NoDeadline
        /\ calls[c].ownDeadline < calls[c].t0 + timeout
        /\ now > calls[c].ownDeadline
        /\ CtxDone(c)

\* a running call without a deadline of its own, past dispatch + T
C10_WitnessNoDeadline ==
    \E c \in Calls :
        /\ Running(c)
        /\ timeout > 0
        /\ calls[c].ownDeadline = NoDeadline
        /\ now > calls[c].t0 + timeout
        /\ calls[c].timer = "fired"

\* C11: once a Stop has run the first half of GracefulStop and waits for the
\* drain, every call in flight that has not reached the handler yet has a
\* merged context that is cancelled or has a cancelled parent.
C11_StopCancelsInFlight ==
    (\E t \in Threads : op[t] = "Stop" /\ pc[t] = "drain") =>
        \A c \in Calls :
            (calls[c].st = "running" /\ calls[c].dir = "down") =>
                calls[c].merged = "done" \/ MergeParentDone(calls[c].ownDone)

\* C12: as long as no Endpoint or Start call has entered the once gate, no
\* listener has been bound and the listener, the endpoint and the cached
\* error of the Server are unset; construction and Stop bind nothing.
C12_NoBindBeforeEndpoint ==
    once = "new" =>
        /\ binds = 0
        /\ sock.state = "none"
        /\ lis = NoLis
        /\ endpoint = NoURL
        /\ err = NoErr

\* a Stop has returned on a Server on which Endpoint and Start never ran
C12_Witness ==
    /\ once = "new"
    /\ stopRets # {}
    /\ \A t \in Threads : pc[t] = "idle"

\* C13: a step of a call, whatever its outcome (handler error, rejection
\* by a middleware, deadline exceeded), changes that call only: the health
\* status, the positions of Start and Stop, the listener, the cached
\* endpoint and error, the stored context and every other call stay as they
\* are.
C13_CallLocal ==
    [][calls' # calls =>
            /\ UNCHANGED <<once, lis, err, endpoint, ctx, health, sock, binds, closes>>
            /\ UNCHANGED <<gLis, gStopped, gDone, pc, op, appDone>>
            /\ \A c, d \in DOMAIN calls :
                    (c # d /\ calls'[c] # calls[c]) => calls'[d] = calls[d]]_vars

\* one call has failed, another is past its deadline, and a third one, or
\* the first again, is still running on the serving server
C13_Witness ==
    \E c, d \in DOMAIN calls :
        /\ c # d
        /\ calls[c].st = "finished"
        /\ calls[c].res \in {"error", "rejected"}
        /\ calls[d].st = "running"
        /\ calls[d].timer = "fired"
        /\ health = "SERVING"
        /\ gLis # {}

\* a plugin of the list is not on the PATH
PluginMissing == \E n \in 1..Len(Plugins) : Plugins[n] \notin cli.path

\* C14: one invocation attempts the upgrade at most once; an invocation with
\* an argument that has ended attempted it exactly once when a plugin is
\* missing and not at all when all three are found; when the upgrade failed
\* its error is the only output and neither generate nor walk has run.
C14_UpgradeOnce ==
    /\ cli.upgrades <= 1
    /\ ~PluginMissing => cli.upgrades = 0
    /\ (PluginMissing /\ cli.args # <<>> /\ cli.pc \in {"dispatch", "generate", "walk",
                                                         "report", "done"})
            => cli.upgrades = 1
    /\ cli.upgradeErr =>
            /\ cli.pc = "done"
            /\ cli.step = "none"
            /\ cli.gens = 0
            /\ cli.out = <<"error">>

\* the first two plugins are found, the third is missing, the upgrade failed
C14_Witness ==
    /\ cli.pc = "done"
    /\ cli.path = {Plugins[1], Plugins[2]}
    /\ cli.upgradeErr
    /\ cli.upgrades = 1

\* a plugin was missing, the upgrade succeeded and a directory walk generated
\* code for two files
C14_WitnessUpgraded ==
    /\ cli.pc = "done"
    /\ PluginMissing
    /\ cli.upgrades = 1
    /\ cli.step = "walk"
    /\ cli.gens = 2

\* the names of the layers that have been entered, in the order of entry
RECURSIVE Names(_)
Names(q) == IF q = <<>> THEN <<>> ELSE <<q[1][1]>> \o Names(Tail(q))

\* C15: the layers of a call are entered in the order middleware chain,
\* user interceptors, grpc handler, and each of them receives a context that
\* was merged, then given the transport and the server information, then
\* bounded by the timeout when one is set.
C15_PipelineOrder ==
    \A c \in Calls :
        calls[c].st = "running" =>
            /\ IsPrefix(Names(calls[c].seen),
                        (IF middleware.set THEN middleware.m ELSE <<>>)
                            \o ints \o <<"handler">>)
            /\ \A i \in 1..Len(calls[c].seen) :
                    calls[c].seen[i][2] =
                        IF timeout > 0 THEN <<"merge", "transport", "info", "timeout">>
                                       ELSE <<"merge", "transport", "info">>

\* a call has passed two middlewares and two interceptors and has reached the
\* handler under a timeout
C15_Witness ==
    \E c \in Calls :
        /\ calls[c].st = "running"
        /\ timeout > 0
        /\ Names(calls[c].seen) = <<"A", "B", "I1", "I2", "handler">>

\* the cancellation resources that are allocated and not released
LiveResources ==
    Cardinality({c \in DOMAIN calls : calls[c].merged \in {"live", "done"}})
        + Cardinality({c \in DOMAIN calls : calls[c].timer \in {"armed", "fired"}})

\* C16: a call inside the interceptor holds one merge association and, when
\* the timeout is positive, one timer; a call that has left the interceptor,
\* by return, error, rejection or panic, holds neither; when no call is
\* running no cancellation resource is live.
C16_ResourcesReleased ==
    /\ \A c \in DOMAIN calls :
        /\ calls[c].st = "running" =>
                /\ calls[c].merged \in {"live", "done"}
                /\ calls[c].timer \in {"armed", "fired"} <=> timeout > 0
        /\ calls[c].st = "finished" =>
                /\ calls[c].merged = "released"
                /\ calls[c].timer = IF timeout > 0 THEN "released" ELSE "none"
    /\ (\A c \in DOMAIN calls : calls[c].st # "running") => LiveResources = 0

\* two calls have completed, one by a panic that unwound through the
\* interceptor after its timer had been set, the other by a rejection
C16_Witness ==
    \E c, d \in DOMAIN calls :
        /\ calls[c].st = "finished"
        /\ calls[c].res = "panic"
        /\ calls[c].timer = "released"
        /\ calls[d].st = "finished"
        /\ calls[d].res = "rejected"

\* a call whose timer has fired is still inside the interceptor
C16_WitnessFired ==
    \E c \in DOMAIN calls : calls[c].st = "running" /\ calls[c].timer = "fired"

\* a goroutine returns from Stop in this step
StopReturns == \E t \in Threads : op[t] = "Stop" /\ pc[t] = "shutdown" /\ pc'[t] = "idle"

\* C17: when Stop returns, the listener the instance bound, by Start or by
\* Endpoint alone, is not open any more.
C17_StopClosesListener ==
    [][StopReturns => sock'.state # "open"]_vars

\* C18: once a Stop has returned no listener is newly bound.
C18_NoBindAfterStopped ==
    [][stopRets # {} => binds' = binds]_vars

\* C19: once the once gate has run, either the error is cached, listener and
\* endpoint are unset and no listener is left open, or no error is cached
\* and listener and endpoint are set.
C19_GateOutcome ==
    once = "done" =>
        \/ /\ err # NoErr
           /\ lis = NoLis
           /\ endpoint = NoURL
           /\ sock.state # "open"
        \/ /\ err = NoErr
           /\ lis = TheLis
           /\ endpoint # NoURL

\* the resolution has failed and the listener opened for it is closed
C19_Witness ==
    /\ once = "done"
    /\ err = ErrExtract
    /\ sock.state = "closed"
    /\ closes = 1

\* C20: whenever a call is in or past the interceptor, and whenever a
\* listener is registered for dispatching, Start has stored its context and
\* the endpoint is resolved without error.
C20_InterceptorSeesStart ==
    (gLis # {} \/ \E c \in Calls : calls[c].st # "none") =>
        /\ ctx = AppCtx
        /\ err = NoErr
        /\ endpoint # NoURL

\* a call is inside the interceptor while a Stop is draining
C20_Witness ==
    \E c \in Calls : \E t \in Threads :
        /\ calls[c].st = "running"
        /\ pc[t] = "drain"

====
